---- MODULE Spec2Model ----
(***************************************************************************)
(* The krypton lexer (pkg/krypton/lexer) with its token and position       *)
(* packages: a scanner goroutine that reads runes from a source, scans     *)
(* them into tokens and hands each token to the consumer over an           *)
(* unbuffered channel, and a consumer that calls NextToken.                *)
(*                                                                         *)
(* A rune is a one-scalar string; a string of the program (a literal) is   *)
(* a sequence of runes.                                                    *)
(***************************************************************************)
EXTENDS Integers, Sequences, FiniteSets, TLC

VARIABLES
    input,      \* what the source holds: the runes and whether the read after them fails
    lexer,      \* the Lexer struct
    pc,         \* where the scanner goroutine stands
    fr,         \* the locals of the scanner's running functions
    cpc,        \* where the consumer stands inside NextToken
    received,   \* the tokens NextToken has returned, in order
    taken,      \* how many of them came through the channel from a send
    emitted,    \* the tokens emit was called for, in order
    last        \* the lex loop's previous iteration: where it began, what it did

vars == <<input, lexer, pc, fr, cpc, received, taken, emitted, last>>

-----------------------------------------------------------------------------
(* Bounds of the model. *)

\* Longest input drawn from the whole alphabet.
MaxLen == 3
\* Most lexemes of an input assembled from whole lexemes.
MaxChunks == 2
\* Most end-of-stream tokens the consumer asks for.
MaxEOF == 2
\* Most calls of emit in one scan.
MaxEmit == 6

-----------------------------------------------------------------------------
(* Runes. *)

eof == "EOF"
bom == "BOM"
\* A byte that is no UTF-8: ReadRune gives utf8.RuneError with size 1.
BAD == "BAD"
\* What string(rune) makes of a rune that is no valid code point.
RuneError == "U+FFFD"
\* The zero rune a fresh Lexer holds.
NUL == "NUL"
\* ARABIC-INDIC DIGIT THREE: in unicode's class Nd, no digit of any base.
AD3 == "AD3"

Letters ==
    { "a", "b", "c", "d", "e", "f", "g", "h", "i", "k", "l", "m", "n", "o",
      "p", "r", "s", "t", "u", "v", "x", "y",
      "A", "B", "C", "D", "E", "F", "O", "P", "U", "X" }

AsciiDigits == { "0", "1", "2", "3", "4", "5", "6", "7", "8", "9" }

\* unicode.IsLetter
IsLetter(r) == r \in Letters

\* unicode.IsDigit
IsUnicodeDigit(r) == r \in AsciiDigits \cup {AD3}

\* unicode.IsSpace
IsSpace(r) == r \in { " ", "\t", "\r", "\n" }

\* unicode.ToLower
ToLower(r) ==
    CASE r = "A" -> "a" [] r = "B" -> "b" [] r = "C" -> "c" [] r = "D" -> "d"
      [] r = "E" -> "e" [] r = "F" -> "f"
      [] r = "O" -> "o" [] r = "P" -> "p" [] r = "U" -> "u" [] r = "X" -> "x"
      [] OTHER -> r

\* string(r)
RuneString(r) == IF r = eof THEN RuneError ELSE r

\* token.IsDigit
IsDigit(r, base) ==
    CASE r \in { "A", "B", "C", "D", "E", "F", "a", "b", "c", "d", "e", "f" } -> base = 16
      [] r \in { "8", "9" } -> base >= 10
      [] r \in { "2", "3", "4", "5", "6", "7" } -> base >= 8
      [] r \in { "0", "1" } -> TRUE
      [] OTHER -> FALSE

-----------------------------------------------------------------------------
(* package file: positions. *)

Pos(line, col) == [Line |-> line, Col |-> col]

Origin == Pos(1, 1)

NextCharacter(p) == [p EXCEPT !.Col = @ + 1]

NextLine(p) == [p EXCEPT !.Line = @ + 1, !.Col = 1]

-----------------------------------------------------------------------------
(* package token: the types in the order of their declaration, the lexeme  *)
(* table and the lookups.                                                  *)

TypeNames ==
    << "EOF", "Illegal", "Comment",
       "literalBeg", "Identifier", "Number", "Rune", "String", "literalEnd",
       "operatorBeg",
       "Plus", "Minus", "Star", "Slash", "Percent",
       "Tilde", "Amp", "Bar", "Caret", "LessLess", "MoreMore",
       "PlusEqual", "MinusEqual", "StarEqual", "SlashEqual", "PercentEqual",
       "AmpEqual", "BarEqual", "CaretEqual", "LessLessEqual", "MoreMoreEqual",
       "EqualEqual", "Less", "More", "Equal", "Bang",
       "BangEqual", "LessEqual", "MoreEqual",
       "LeftParen", "LeftBrack", "LeftBrace", "Comma", "Period",
       "RightParen", "RightBrack", "RightBrace", "Semicolon", "Colon",
       "operatorEnd",
       "keywordBeg",
       "Underscore", "For", "If", "Else", "Let", "Const", "Func",
       "Break", "Continue", "Return", "Fall",
       "TypeDec", "Struct", "Enum", "Interface", "Namespace",
       "keywordEnd" >>

\* The value of a type: its place in the const block.
Ord(t) == (CHOOSE i \in 1..Len(TypeNames) : TypeNames[i] = t) - 1

typeToString ==
    { <<"EOF", <<":", "E", "O", "F", ":">>>>,
      <<"Illegal", <<":", "I", "L", "L", "E", "G", "A", "L", ":">>>>,
      <<"Comment", <<":", "C", "O", "M", "M", "E", "N", "T", ":">>>>,
      <<"Identifier", <<":", "I", "D", "E", "N", "T", ":">>>>,
      <<"Number", <<":", "N", "U", "M", "B", "E", "R", ":">>>>,
      <<"Rune", <<":", "R", "U", "N", "E", ":">>>>,
      <<"String", <<":", "S", "T", "R", "I", "N", "G", ":">>>>,
      <<"Plus", <<"+">>>>, <<"Minus", <<"-">>>>, <<"Star", <<"*">>>>,
      <<"Slash", <<"/">>>>, <<"Percent", <<"%">>>>,
      <<"Tilde", <<"~">>>>, <<"Amp", <<"&">>>>, <<"Bar", <<"|">>>>,
      <<"Caret", <<"^">>>>, <<"LessLess", <<"<", "<">>>>,
      <<"MoreMore", <<">", ">">>>>,
      <<"PlusEqual", <<"+", "=">>>>, <<"MinusEqual", <<"-", "=">>>>,
      <<"StarEqual", <<"*", "=">>>>, <<"SlashEqual", <<"/", "=">>>>,
      <<"PercentEqual", <<"%", "=">>>>,
      <<"AmpEqual", <<"&", "=">>>>, <<"BarEqual", <<"|", "=">>>>,
      <<"CaretEqual", <<"^", "=">>>>,
      <<"LessLessEqual", <<"<", "<", "=">>>>,
      <<"MoreMoreEqual", <<">", ">", "=">>>>,
      <<"EqualEqual", <<"=", "=">>>>, <<"Less", <<"<">>>>, <<"More", <<">">>>>,
      <<"Equal", <<"=">>>>, <<"Bang", <<"!">>>>,
      <<"BangEqual", <<"!", "=">>>>, <<"LessEqual", <<"<", "=">>>>,
      <<"MoreEqual", <<">", "=">>>>,
      <<"LeftParen", <<"(">>>>, <<"LeftBrack", <<"[">>>>,
      <<"LeftBrace", <<"{">>>>, <<"Comma", <<",">>>>, <<"Period", <<".">>>>,
      <<"RightParen", <<")">>>>, <<"RightBrack", <<"]">>>>,
      <<"RightBrace", <<"}">>>>, <<"Semicolon", <<";">>>>, <<"Colon", <<":">>>>,
      <<"Underscore", <<"_">>>>,
      <<"For", <<"f", "o", "r">>>>, <<"If", <<"i", "f">>>>,
      <<"Else", <<"e", "l", "s", "e">>>>,
      <<"Let", <<"l", "e", "t">>>>, <<"Const", <<"c", "o", "n", "s", "t">>>>,
      <<"Func", <<"f", "u", "n", "c">>>>,
      <<"Break", <<"b", "r", "e", "a", "k">>>>,
      <<"Continue", <<"c", "o", "n", "t", "i", "n", "u", "e">>>>,
      <<"Return", <<"r", "e", "t", "u", "r", "n">>>>,
      <<"Fall", <<"f", "a", "l", "l", "t", "h", "r", "o", "u", "g", "h">>>>,
      <<"TypeDec", <<"t", "y", "p", "e">>>>,
      <<"Struct", <<"s", "t", "r", "u", "c", "t">>>>,
      <<"Enum", <<"e", "n", "u", "m">>>>,
      <<"Interface", <<"i", "n", "t", "e", "r", "f", "a", "c", "e">>>>,
      <<"Namespace", <<"n", "a", "m", "e", "s", "p", "a", "c", "e">>>> }

\* The keys of stringToType.
stringToType == { e[2] : e \in typeToString }

\* NewTokenType: the type of a lexeme, the zero type (EOF) of any other string.
NewTokenType(str) ==
    IF str \in stringToType
        THEN (CHOOSE e \in typeToString : e[2] = str)[1]
        ELSE "EOF"

\* Type.IsLiteral
TypeIsLiteral(tok) == Ord("literalBeg") < Ord(tok) /\ Ord(tok) < Ord("literalEnd")

\* Type.IsOperator
TypeIsOperator(tok) == Ord("operatorBeg") < Ord(tok) /\ Ord(tok) < Ord("operatorEnd")

\* Type.IsKeyword
TypeIsKeyword(tok) == Ord("keywordBeg") < Ord(tok) /\ Ord(tok) < Ord("keywordEnd")

\* InsertSemiAfter taking every operator for the end of a statement.
InsertSemiAfterOperators(tok) == TypeIsLiteral(tok) \/ TypeIsOperator(tok)

\* Type.InsertSemiAfter
InsertSemiAfter(tok) ==
    IF TypeIsLiteral(tok)
        THEN TRUE
        ELSE tok \in { "RightParen", "RightBrack", "RightBrace",
                       "Break", "Continue", "Return" }

\* token.IsOperator
IsOperator(s) == TypeIsOperator(NewTokenType(s))

\* Lookup without the test for a keyword: the type the table gives the name.
LookupAny(name) == NewTokenType(name)

\* token.Lookup
Lookup(name) ==
    IF name \in stringToType /\ TypeIsKeyword(NewTokenType(name))
        THEN NewTokenType(name)
        ELSE "Identifier"

Token(type, literal, pos) == [Type |-> type, Literal |-> literal, Pos |-> pos]

\* What a receive from the closed channel gives: the zero Token.
ZeroToken == Token("EOF", <<>>, Pos(0, 0))

-----------------------------------------------------------------------------
(* The errors the lexer raises. *)

ErrIllegalBOM == "unexpected byte order mark"
ErrIllegalUTF8 == "illegal utf-8 encountered"
ErrUnclosedRuneLit == "unterminated rune literal"
ErrEmptyRuneLiteral == "empty rune literal"
ErrTooManyRuneChars == "too many characters in rune literal"
ErrUnclosedStringLit == "unterminated string literal"
ErrUnexpectedRune == "unexpected rune in source"
ErrHexExponent == "hex exponent indicator in decimal literal, use 'e' instead"
ErrIllegalPrefix == "illegal prefix in esacape literal"
ErrHexDigits == "should be followed by hexadecimal digits"
ErrInvalidCodepoint == "represents an invalid Unicode codepoint"
\* The error of a read that fails: whatever the source reports, not io.EOF.
ErrRead == "read error"

ErrExpectedDigits(base) ==
    CASE base = 2 -> "expected digits of base 2"
      [] base = 8 -> "expected digits of base 8"
      [] base = 10 -> "expected digits of base 10"
      [] base = 16 -> "expected digits of base 16"

-----------------------------------------------------------------------------
(* The methods of Lexer that the scan is made of, as functions of the      *)
(* Lexer struct l.                                                         *)

HasErrors(l) == l.Errors > 0

\* raiseAt that hands the error to the handler and leaves the counter alone.
raiseAtUncounted(l, pos, err) ==
    [l EXCEPT !.errorHandler = Append(@, [pos |-> pos, err |-> err])]

raiseAt(l, pos, err) ==
    [l EXCEPT !.Errors = @ + 1,
              !.errorHandler = Append(@, [pos |-> pos, err |-> err])]

raise(l, err) == raiseAt(l, l.tokenEnd, err)

raiseAtTop(l, err) == raiseAt(l, l.tokenStart, err)

close(l) ==
    IF ~l.closed
        THEN [l EXCEPT !.current = eof, !.tokenStream = "closed", !.closed = TRUE]
        ELSE l

\* The loop of readRune: the Lexer it leaves and the rune it returns.
RECURSIVE readLoop(_, _)
readLoop(l, first) ==
    IF l.source.data = <<>>
        THEN IF l.source.fail
                 THEN [l |-> close(raise(l, ErrRead)), r |-> eof]
                 ELSE [l |-> l, r |-> eof]
        ELSE LET char == Head(l.source.data)
                 l1 == [l EXCEPT !.source.data = Tail(@)]
             IN  CASE char = BAD -> readLoop(raise(l1, ErrIllegalUTF8), first)
                   [] char = bom ->
                        readLoop(IF first THEN l1 ELSE raise(l1, ErrIllegalBOM), FALSE)
                   [] OTHER -> [l |-> l1, r |-> char]

readRune(l, first) ==
    IF l.closed THEN [l |-> l, r |-> eof] ELSE readLoop(l, first)

consume(l) ==
    LET l1 == [l EXCEPT
                 !.tokenLiteral = Append(@, RuneString(l.current)),
                 !.tokenEnd = IF l.current = "\n"
                                  THEN NextLine(NextCharacter(@))
                                  ELSE NextCharacter(@)]
        rr == readRune(l1, FALSE)
    IN  [rr.l EXCEPT !.current = rr.r]

discard(l) == [l EXCEPT !.tokenLiteral = <<>>, !.tokenStart = l.tokenEnd]

-----------------------------------------------------------------------------
(* The inputs. *)

\* The runes an input of at most MaxLen runes is drawn from.
Sigma == { "a", "0", AD3, "\"", "\\", "+", ")", "#", "\n", " " }

SeqsUpTo(S, n) == UNION { [1..k -> S] : k \in 0..n }

\* Whole lexemes, for the inputs assembled from at most MaxChunks of them.
Chunks ==
    { <<"b", "r", "e", "a", "k">>, <<"r", "e", "t", "u", "r", "n">>,
      <<"c", "o", "n", "t", "i", "n", "u", "e">>, <<"i", "f">>,
      <<"p">>, <<"_">>, <<"1">>, <<"'", "a", "'">>, <<"\"", "a", "\"">>,
      <<"\"", "a">>, <<"'", "a">>,
      <<"<", "<", "=">>, <<";">>, <<"]">>, <<"}">>, <<"(">>,
      <<"#", "c">>, <<"\n">>, <<"\t">>, <<"\r">>, <<AD3>>, <<"$">>, <<bom>>, <<BAD>>,
      <<"1", "e", "+", "1">>, <<"0", "x">>, <<"\"", "\\", "x", "4", "1", "\"">> }

RECURSIVE Concat(_)
Concat(ss) == IF ss = <<>> THEN <<>> ELSE Head(ss) \o Concat(Tail(ss))

\* A rune literal with the text body between its quotes, a string literal.
RuneLit(body) == <<"'">> \o body \o <<"'">>

StringLit(body) == <<"\"">> \o body \o <<"\"">>

\* The bodies of the quoted literals that are scanned as whole inputs: none,
\* one and two plain scalars, simple escapes, hex escapes with all their
\* digits (code points that are valid, surrogates, past U+10FFFF, past the
\* 32 bits of an int32) and hex escapes cut short.
Bodies ==
    { <<>>, <<"a">>, <<"a", "a">>,
      <<"\\", "n">>, <<"a", "\\", "n">>, <<"\\", "q">>,
      <<"\\", "x", "4", "1">>, <<"\\", "x", "4", "1", "a">>,
      <<"\\", "u", "D", "7", "F", "F">>, <<"\\", "u", "D", "8", "0", "0">>,
      <<"\\", "u", "D", "F", "F", "F">>, <<"\\", "u", "E", "0", "0", "0">>,
      <<"\\", "U", "0", "0", "1", "0", "F", "F", "F", "F">>,
      <<"\\", "U", "0", "0", "1", "1", "0", "0", "0", "0">>,
      <<"\\", "U", "7", "F", "F", "F", "F", "F", "F", "F">>,
      <<"\\", "U", "8", "0", "0", "0", "0", "0", "0", "0">>,
      <<"\\", "U", "F", "F", "F", "F", "F", "F", "F", "F">>,
      <<"\\", "x">>, <<"\\", "x", "4">>, <<"\\", "x", "g", "1">>,
      <<"\\", "u", "4", "1">>, <<"\\", "U", "0", "0", "4", "1">>,
      <<"\\", "x", "4", "\\", "x", "4", "1">> }

Literals == { RuneLit(b) : b \in Bodies } \cup { StringLit(b) : b \in Bodies }

Inputs ==
    SeqsUpTo(Sigma, MaxLen)
        \cup { Concat(cs) : cs \in SeqsUpTo(Chunks, MaxChunks) }
        \cup Literals

\* The locals of a function that is not running.
Frame0 ==
    [ tokenType |-> "EOF", base |-> 0, cantBe0 |-> FALSE,
      dBase |-> 0, required |-> FALSE, ret |-> "",
      quote |-> NUL, charsConsumed |-> 0,
      prefix |-> NUL, digits |-> 0, i |-> 0, hexDigits |-> <<>> ]

\* Lex has made the Lexer and has not yet read the first rune.
Init ==
    /\ input \in [ data : Inputs, fail : BOOLEAN ]
    /\ lexer = [ source |-> input, current |-> NUL,
                 tokenStream |-> "open", closed |-> FALSE,
                 Errors |-> 0, errorHandler |-> <<>>,
                 insertSemi |-> FALSE,
                 tokenStart |-> Origin, tokenEnd |-> Origin,
                 tokenLiteral |-> <<>> ]
    /\ pc = "Lex"
    /\ fr = Frame0
    /\ cpc = "idle"
    /\ received = <<>>
    /\ taken = 0
    /\ emitted = <<>>
    /\ last = [ began |-> FALSE, end |-> Origin, semi |-> FALSE ]

consumerVars == <<cpc, received, taken>>

-----------------------------------------------------------------------------
(* The scanner. *)

\* Lex: reads a rune into current, then starts the scanner goroutine.
Lex ==
    /\ pc = "Lex"
    /\ LET rr == readRune(lexer, TRUE)
       IN  lexer' = [rr.l EXCEPT !.current = rr.r]
    /\ pc' = "lex"
    /\ UNCHANGED <<input, fr, consumerVars, emitted, last>>

\* The dispatch of Lexer.lex on the current rune: the case taken.
LexCase(r) ==
    CASE IsLetter(r) -> "identifier"
      [] r = "_" -> "underscore"
      [] r = "\\" -> "escaped"
      [] IsUnicodeDigit(r) -> "number"
      [] r = "'" -> "rune"
      [] r = "\"" -> "string"
      [] IsOperator(<<RuneString(r)>>) -> "operator"
      [] r = "#" -> "comment"
      [] r = "\n" -> "newline"
      [] IsSpace(r) -> "space"
      [] r = eof -> "eof"
      [] OTHER -> "default"

\* One iteration of the loop of Lexer.lex, up to the call it makes.
lex ==
    /\ pc = "lex"
    /\ last' = [ began |-> TRUE, end |-> lexer.tokenEnd,
                 semi |-> LexCase(lexer.current) = "newline" /\ lexer.insertSemi ]
    /\ LET c == LexCase(lexer.current)
       IN  \/ /\ c = "identifier"
              /\ pc' = "lexIdentifier"
              /\ UNCHANGED <<lexer, fr>>
           \/ /\ c = "underscore"
              /\ lexer' = consume(lexer)
              /\ fr' = [fr EXCEPT !.tokenType = "Underscore"]
              /\ pc' = "emit"
           \/ /\ c = "escaped"
              /\ lexer' = consume(lexer)
              /\ pc' = "escapedIdentifier"
              /\ UNCHANGED fr
           \/ /\ c = "number"
              /\ pc' = "lexNumber"
              /\ UNCHANGED <<lexer, fr>>
           \/ /\ c = "rune"
              /\ pc' = "lexRune"
              /\ UNCHANGED <<lexer, fr>>
           \/ /\ c = "string"
              /\ pc' = "lexString"
              /\ UNCHANGED <<lexer, fr>>
           \/ /\ c = "operator"
              /\ pc' = "lexOperator"
              /\ UNCHANGED <<lexer, fr>>
           \/ /\ c = "comment"
              /\ pc' = "lexComment"
              /\ UNCHANGED <<lexer, fr>>
           \/ /\ c = "newline" /\ lexer.insertSemi
              /\ fr' = [fr EXCEPT !.tokenType = "Semicolon"]
              /\ pc' = "emit"
              /\ UNCHANGED lexer
           \/ /\ \/ c = "newline" /\ ~lexer.insertSemi
                 \/ c = "space"
              /\ pc' = "discardWhitespace"
              /\ UNCHANGED <<lexer, fr>>
           \/ /\ c = "eof"
              /\ lexer' = close(lexer)
              /\ pc' = "done"
              /\ UNCHANGED fr
           \/ /\ c = "default"
              /\ lexer' = consume(raise(lexer, ErrUnexpectedRune))
              /\ fr' = [fr EXCEPT !.tokenType = "Illegal"]
              /\ pc' = "emit"
    /\ UNCHANGED <<input, consumerVars, emitted>>

\* The escaped identifier of Lexer.lex after its leading backslash:
\* consumeIdentifier, then the consume of the trailing backslash.
escapedIdentifier ==
    /\ pc = "escapedIdentifier"
    /\ lexer' = consume(lexer)
    /\ IF IsLetter(lexer.current) \/ IsUnicodeDigit(lexer.current) \/ lexer.current = "_"
           THEN pc' = "escapedIdentifier" /\ UNCHANGED fr
           ELSE pc' = "emit" /\ fr' = [fr EXCEPT !.tokenType = "Identifier"]
    /\ UNCHANGED <<input, consumerVars, emitted, last>>

discardWhitespace ==
    /\ pc = "discardWhitespace"
    /\ IF IsSpace(lexer.current)
           THEN lexer' = consume(lexer) /\ pc' = "discardWhitespace"
           ELSE lexer' = discard(lexer) /\ pc' = "lex"
    /\ UNCHANGED <<input, fr, consumerVars, emitted, last>>

\* lexIdentifier with the loop of consumeIdentifier.
lexIdentifier ==
    /\ pc = "lexIdentifier"
    /\ IF IsLetter(lexer.current) \/ IsUnicodeDigit(lexer.current) \/ lexer.current = "_"
           THEN /\ lexer' = consume(lexer)
                /\ pc' = "lexIdentifier"
                /\ UNCHANGED fr
           ELSE /\ fr' = [fr EXCEPT !.tokenType = Lookup(lexer.tokenLiteral)]
                /\ pc' = "emit"
                /\ UNCHANGED lexer
    /\ UNCHANGED <<input, consumerVars, emitted, last>>

\* The call consumeDigits(base, required) that returns to ret.
CallDigits(f, base, required, ret) ==
    [f EXCEPT !.dBase = base, !.required = required, !.ret = ret]

\* lexNumber up to the prefix switch: the emit is deferred, the zero consumed.
lexNumber ==
    /\ pc = "lexNumber"
    /\ IF lexer.current = "0"
           THEN /\ lexer' = consume(lexer)
                /\ fr' = [fr EXCEPT !.tokenType = "Number", !.base = 10,
                                    !.cantBe0 = FALSE]
                /\ pc' = "numberPrefix"
           ELSE /\ fr' = CallDigits([fr EXCEPT !.tokenType = "Number", !.base = 10,
                                               !.cantBe0 = FALSE],
                                    10, FALSE, "numberFraction")
                /\ pc' = "consumeDigits"
                /\ UNCHANGED lexer
    /\ UNCHANGED <<input, consumerVars, emitted, last>>

\* The base a prefix rune stands for; 0 for a rune that is no prefix.
PrefixBase(r) ==
    CASE r \in { "x", "X" } -> 16
      [] r \in { "o", "O" } -> 8
      [] r \in { "b", "B" } -> 2
      [] OTHER -> 0

\* lexNumber: the switch on the rune after a leading zero.
numberPrefix ==
    /\ pc = "numberPrefix"
    /\ IF PrefixBase(lexer.current) # 0
           THEN /\ lexer' = consume(lexer)
                /\ fr' = CallDigits([fr EXCEPT !.base = PrefixBase(lexer.current),
                                               !.cantBe0 = TRUE],
                                    PrefixBase(lexer.current), TRUE, "numberFraction")
           ELSE /\ fr' = CallDigits([fr EXCEPT !.base = 8], 8, fr.cantBe0,
                                    "numberFraction")
                /\ UNCHANGED lexer
    /\ pc' = "consumeDigits"
    /\ UNCHANGED <<input, consumerVars, emitted, last>>

\* consumeDigits: the check of the required flag.
consumeDigits ==
    /\ pc = "consumeDigits"
    /\ lexer' = IF ~IsDigit(lexer.current, fr.dBase) /\ fr.required
                    THEN raise(lexer, ErrExpectedDigits(fr.dBase))
                    ELSE lexer
    /\ pc' = "digitsLoop"
    /\ UNCHANGED <<input, fr, consumerVars, emitted, last>>

\* consumeDigits: the loop, and the return to the caller.
digitsLoop ==
    /\ pc = "digitsLoop"
    /\ IF IsDigit(lexer.current, fr.dBase)
           THEN lexer' = consume(lexer) /\ pc' = "digitsLoop"
           ELSE pc' = fr.ret /\ UNCHANGED lexer
    /\ UNCHANGED <<input, fr, consumerVars, emitted, last>>

\* lexNumber after the digits of the integer part: the fraction.
numberFraction ==
    /\ pc = "numberFraction"
    /\ \/ /\ fr.base < 10
          /\ pc' = "emit"
          /\ UNCHANGED <<lexer, fr>>
       \/ /\ fr.base >= 10 /\ lexer.current = "."
          /\ lexer' = consume(lexer)
          /\ fr' = CallDigits(fr, fr.base, TRUE, "numberExponent")
          /\ pc' = "consumeDigits"
       \/ /\ fr.base >= 10 /\ lexer.current # "."
          /\ pc' = "numberExponent"
          /\ UNCHANGED <<lexer, fr>>
    /\ UNCHANGED <<input, consumerVars, emitted, last>>

\* lexNumber: the switch on the exponent indicator, and its consume.
numberExponent ==
    /\ pc = "numberExponent"
    /\ LET low == ToLower(lexer.current)
       IN  \/ /\ \/ fr.base = 16 /\ low = "p"
                 \/ fr.base = 10 /\ low = "e"
              /\ lexer' = consume(lexer)
              /\ pc' = "numberSign"
           \/ /\ fr.base = 10 /\ low = "p"
              /\ lexer' = consume(raise(lexer, ErrHexExponent))
              /\ pc' = "numberSign"
           \/ /\ ~(fr.base = 16 /\ low = "p")
              /\ ~(fr.base = 10 /\ low \in { "e", "p" })
              /\ pc' = "emit"
              /\ UNCHANGED lexer
    /\ UNCHANGED <<input, fr, consumerVars, emitted, last>>

\* lexNumber: the sign of the exponent, then the call for its digits.
numberSign ==
    /\ pc = "numberSign"
    /\ lexer' = IF lexer.current \in { "+", "-" } THEN consume(lexer) ELSE lexer
    /\ fr' = CallDigits(fr, 10, TRUE, "emit")
    /\ pc' = "consumeDigits"
    /\ UNCHANGED <<input, consumerVars, emitted, last>>

\* lexRune: the starting quote.
lexRune ==
    /\ pc = "lexRune"
    /\ lexer' = consume(lexer)
    /\ fr' = [fr EXCEPT !.quote = "'", !.charsConsumed = 0]
    /\ pc' = "runeLoop"
    /\ UNCHANGED <<input, consumerVars, emitted, last>>

\* lexRune: one turn of the loop, or the tailing quote.
runeLoop ==
    /\ pc = "runeLoop"
    /\ \/ /\ lexer.current = "'"
          /\ lexer' = consume(lexer)
          /\ pc' = "runeCheck"
          /\ UNCHANGED fr
       \/ /\ lexer.current \in { eof, "\n" }
          /\ lexer' = raise(lexer, ErrUnclosedRuneLit)
          /\ pc' = "lex"
          /\ fr' = Frame0
       \/ /\ lexer.current \notin { "'", eof, "\n" }
          /\ IF lexer.current = "\\"
                 THEN pc' = "consumeEscape" /\ UNCHANGED <<lexer, fr>>
                 ELSE /\ lexer' = consume(lexer)
                      /\ fr' = [fr EXCEPT !.charsConsumed = @ + 1]
                      /\ pc' = "runeLoop"
    /\ UNCHANGED <<input, consumerVars, emitted, last>>

\* lexRune that reports its two errors where the literal ends.
runeCheckAtEnd ==
    /\ pc = "runeCheck"
    /\ lexer' = IF fr.charsConsumed > 1 THEN raise(lexer, ErrTooManyRuneChars)
                ELSE IF fr.charsConsumed < 1 THEN raise(lexer, ErrEmptyRuneLiteral)
                ELSE lexer
    /\ fr' = [fr EXCEPT !.tokenType = "Rune"]
    /\ pc' = "emit"
    /\ UNCHANGED <<input, consumerVars, emitted, last>>

\* lexRune: the count of the characters, then the emit.
runeCheck ==
    /\ pc = "runeCheck"
    /\ lexer' = IF fr.charsConsumed > 1 THEN raiseAtTop(lexer, ErrTooManyRuneChars)
                ELSE IF fr.charsConsumed < 1 THEN raiseAtTop(lexer, ErrEmptyRuneLiteral)
                ELSE lexer
    /\ fr' = [fr EXCEPT !.tokenType = "Rune"]
    /\ pc' = "emit"
    /\ UNCHANGED <<input, consumerVars, emitted, last>>

\* lexString: the starting quote.
lexString ==
    /\ pc = "lexString"
    /\ lexer' = consume(lexer)
    /\ fr' = [fr EXCEPT !.quote = "\""]
    /\ pc' = "stringLoop"
    /\ UNCHANGED <<input, consumerVars, emitted, last>>

\* lexString: one turn of the loop, or the tailing quote and the emit.
stringLoop ==
    /\ pc = "stringLoop"
    /\ \/ /\ lexer.current = "\""
          /\ lexer' = consume(lexer)
          /\ fr' = [fr EXCEPT !.tokenType = "String"]
          /\ pc' = "emit"
       \/ /\ lexer.current \in { eof, "\n" }
          /\ lexer' = raise(lexer, ErrUnclosedStringLit)
          /\ pc' = "lex"
          /\ fr' = Frame0
       \/ /\ lexer.current \notin { "\"", eof, "\n" }
          /\ IF lexer.current = "\\"
                 THEN pc' = "consumeEscape" /\ UNCHANGED lexer
                 ELSE lexer' = consume(lexer) /\ pc' = "stringLoop"
          /\ UNCHANGED fr
    /\ UNCHANGED <<input, consumerVars, emitted, last>>

\* The return of consumeRune to the loop of the literal it was called from.
LoopOf(quote) == IF quote = "'" THEN "runeLoop" ELSE "stringLoop"

AfterRune(f) ==
    IF f.quote = "'" THEN [f EXCEPT !.charsConsumed = @ + 1] ELSE f

\* consumeEscape: the starting backslash.
consumeEscape ==
    /\ pc = "consumeEscape"
    /\ lexer' = consume(lexer)
    /\ pc' = "escapePrefix"
    /\ UNCHANGED <<input, fr, consumerVars, emitted, last>>

\* The hex digits an escape prefix asks for.
EscapeDigits(r) ==
    CASE r = "x" -> 2
      [] r = "u" -> 4
      [] r = "U" -> 8
      [] OTHER -> 0

\* consumeEscape: the switch on the prefix, and its consume.
escapePrefix ==
    /\ pc = "escapePrefix"
    /\ LET r == lexer.current
           legal == r \in { fr.quote, "\\", "v", "t", "r", "n", "f", "b", "a",
                            "x", "u", "U" }
       IN  /\ lexer' = consume(IF legal THEN lexer
                                        ELSE raise(lexer, ErrIllegalPrefix))
           /\ IF EscapeDigits(r) > 0
                  THEN /\ fr' = [fr EXCEPT !.prefix = r, !.digits = EscapeDigits(r),
                                           !.i = 0, !.hexDigits = <<>>]
                       /\ pc' = "escapeDigits"
                  ELSE /\ fr' = AfterRune(fr)
                       /\ pc' = LoopOf(fr.quote)
    /\ UNCHANGED <<input, consumerVars, emitted, last>>

\* The value of a hex digit.
HexDigit(r) ==
    CASE r \in AsciiDigits -> CHOOSE n \in 0..9 : <<"0", "1", "2", "3", "4", "5", "6", "7", "8", "9">>[n + 1] = r
      [] r \in { "a", "A" } -> 10 [] r \in { "b", "B" } -> 11
      [] r \in { "c", "C" } -> 12 [] r \in { "d", "D" } -> 13
      [] r \in { "e", "E" } -> 14 [] r \in { "f", "F" } -> 15

MaxInt32 == 2147483647

\* strconv.ParseInt(s, 16, 32) with its error dropped: the value, or the
\* largest int32 when the value is out of range.
RECURSIVE ParseHex(_, _)
ParseHex(s, acc) ==
    IF s = <<>> THEN acc
    ELSE IF acc > (MaxInt32 - HexDigit(Head(s))) \div 16 THEN MaxInt32
    ELSE ParseHex(Tail(s), acc * 16 + HexDigit(Head(s)))

\* ValidRune that tests the range and lets the surrogates pass.
ValidRuneInRange(r) == 0 <= r /\ r <= 1114111

\* utf8.ValidRune
ValidRune(r) ==
    \/ 0 <= r /\ r < 55296
    \/ 57343 < r /\ r <= 1114111

\* consumeEscape that consumes the scalar it finds in the place of a hex digit.
escapeDigitsSkips ==
    /\ pc = "escapeDigits"
    /\ IF fr.i < fr.digits
           THEN IF ~IsDigit(lexer.current, 16)
                    THEN /\ lexer' = consume(raise(lexer, ErrHexDigits))
                         /\ fr' = AfterRune(fr)
                         /\ pc' = LoopOf(fr.quote)
                    ELSE /\ lexer' = consume(lexer)
                         /\ fr' = [fr EXCEPT !.hexDigits = Append(@, lexer.current),
                                             !.i = @ + 1]
                         /\ pc' = "escapeDigits"
           ELSE /\ lexer' = IF ~ValidRune(ParseHex(fr.hexDigits, 0))
                                THEN raise(lexer, ErrInvalidCodepoint)
                                ELSE lexer
                /\ fr' = AfterRune(fr)
                /\ pc' = LoopOf(fr.quote)
    /\ UNCHANGED <<input, consumerVars, emitted, last>>

\* consumeEscape: one hex digit, or the check of the code point at the end.
escapeDigits ==
    /\ pc = "escapeDigits"
    /\ IF fr.i < fr.digits
           THEN IF ~IsDigit(lexer.current, 16)
                    THEN /\ lexer' = raise(lexer, ErrHexDigits)
                         /\ fr' = AfterRune(fr)
                         /\ pc' = LoopOf(fr.quote)
                    ELSE /\ lexer' = consume(lexer)
                         /\ fr' = [fr EXCEPT !.hexDigits = Append(@, lexer.current),
                                             !.i = @ + 1]
                         /\ pc' = "escapeDigits"
           ELSE /\ lexer' = IF ~ValidRune(ParseHex(fr.hexDigits, 0))
                                THEN raise(lexer, ErrInvalidCodepoint)
                                ELSE lexer
                /\ fr' = AfterRune(fr)
                /\ pc' = LoopOf(fr.quote)
    /\ UNCHANGED <<input, consumerVars, emitted, last>>

\* lexOperator that takes one rune and never extends the lexeme.
lexOperatorOneRune ==
    /\ pc = "lexOperator"
    /\ IF lexer.tokenLiteral = <<>>
           THEN /\ lexer' = consume(lexer)
                /\ pc' = "lexOperator"
                /\ UNCHANGED fr
           ELSE /\ fr' = [fr EXCEPT !.tokenType = NewTokenType(lexer.tokenLiteral)]
                /\ pc' = "emit"
                /\ UNCHANGED lexer
    /\ UNCHANGED <<input, consumerVars, emitted, last>>

lexOperator ==
    /\ pc = "lexOperator"
    /\ IF IsOperator(Append(lexer.tokenLiteral, RuneString(lexer.current)))
           THEN /\ lexer' = consume(lexer)
                /\ pc' = "lexOperator"
                /\ UNCHANGED fr
           ELSE /\ fr' = [fr EXCEPT !.tokenType = NewTokenType(lexer.tokenLiteral)]
                /\ pc' = "emit"
                /\ UNCHANGED lexer
    /\ UNCHANGED <<input, consumerVars, emitted, last>>

lexComment ==
    /\ pc = "lexComment"
    /\ IF lexer.current # "\n" /\ lexer.current # eof
           THEN /\ lexer' = consume(lexer)
                /\ pc' = "lexComment"
                /\ UNCHANGED fr
           ELSE /\ fr' = [fr EXCEPT !.tokenType = "Comment"]
                /\ pc' = "emit"
                /\ UNCHANGED lexer
    /\ UNCHANGED <<input, consumerVars, emitted, last>>

\* emit on a channel with a buffer: the send does not wait for the receive.
emitBuffered ==
    /\ pc = "emit"
    /\ Len(emitted) < MaxEmit
    /\ lexer' = [lexer EXCEPT !.insertSemi =
                    IF fr.tokenType # "Comment"
                        THEN InsertSemiAfter(fr.tokenType)
                        ELSE @]
    /\ emitted' = Append(emitted,
                         Token(fr.tokenType, lexer.tokenLiteral, lexer.tokenStart))
    /\ pc' = IF lexer.tokenStream = "closed" THEN "panic" ELSE "sent"
    /\ UNCHANGED <<input, fr, consumerVars, last>>

\* emit without its test for comments: every token sets the flag.
emitCommentSetsFlag ==
    /\ pc = "emit"
    /\ Len(emitted) < MaxEmit
    /\ lexer' = [lexer EXCEPT !.insertSemi = InsertSemiAfter(fr.tokenType)]
    /\ emitted' = Append(emitted,
                         Token(fr.tokenType, lexer.tokenLiteral, lexer.tokenStart))
    /\ pc' = IF lexer.tokenStream = "closed" THEN "panic" ELSE "send"
    /\ UNCHANGED <<input, fr, consumerVars, last>>

\* emit up to its send: the flag, then the token is offered on the channel,
\* where the goroutine blocks; a send on the closed channel panics.
emit ==
    /\ pc = "emit"
    /\ Len(emitted) < MaxEmit
    /\ lexer' = [lexer EXCEPT !.insertSemi =
                    IF fr.tokenType # "Comment"
                        THEN InsertSemiAfter(fr.tokenType)
                        ELSE @]
    /\ emitted' = Append(emitted,
                         Token(fr.tokenType, lexer.tokenLiteral, lexer.tokenStart))
    /\ pc' = IF lexer.tokenStream = "closed" THEN "panic" ELSE "send"
    /\ UNCHANGED <<input, fr, consumerVars, last>>

\* The send of emit meets the receive of NextToken.
handoff ==
    /\ pc = "send"
    /\ cpc = "receive"
    /\ received' = Append(received,
                          Token(fr.tokenType, lexer.tokenLiteral, lexer.tokenStart))
    /\ taken' = taken + 1
    /\ cpc' = "idle"
    /\ pc' = "sent"
    /\ UNCHANGED <<input, lexer, fr, emitted, last>>

\* emit that reports an error of the token after it has sent the token.
emitDiscardRaises ==
    /\ pc = "sent"
    /\ lexer' = discard(raiseAtTop(lexer, ErrTooManyRuneChars))
    /\ fr' = Frame0
    /\ pc' = "lex"
    /\ UNCHANGED <<input, consumerVars, emitted, last>>

\* emit after its send: the discard, and the return to the loop of lex.
emitDiscard ==
    /\ pc = "sent"
    /\ lexer' = discard(lexer)
    /\ fr' = Frame0
    /\ pc' = "lex"
    /\ UNCHANGED <<input, consumerVars, emitted, last>>

-----------------------------------------------------------------------------
(* The consumer. *)

NumEOF == Cardinality({ k \in 1..Len(received) : received[k].Type = "EOF" })

\* The process runs: Lex has returned the Lexer and no goroutine has panicked.
Running == pc \notin { "Lex", "panic" }

\* NextToken up to its receive. It reads closed while the scanner may be
\* writing it, with nothing that orders the two: once the flag is set the
\* read gives either value.
NextToken ==
    /\ Running
    /\ cpc = "idle"
    /\ NumEOF < MaxEOF
    /\ \E seen \in IF lexer.closed THEN { TRUE, FALSE } ELSE { FALSE } :
          IF seen
              THEN /\ received' = Append(received,
                                         Token("EOF", <<>>, lexer.tokenStart))
                   /\ cpc' = "idle"
              ELSE /\ cpc' = "receive"
                   /\ UNCHANGED received
    /\ UNCHANGED <<input, lexer, pc, fr, taken, emitted, last>>

\* The receive of NextToken on the closed channel.
receiveClosed ==
    /\ Running
    /\ cpc = "receive"
    /\ lexer.tokenStream = "closed"
    /\ received' = Append(received, ZeroToken)
    /\ cpc' = "idle"
    /\ UNCHANGED <<input, lexer, pc, fr, taken, emitted, last>>

-----------------------------------------------------------------------------

Scanner ==
    \/ Lex \/ lex \/ escapedIdentifier \/ discardWhitespace \/ lexIdentifier
    \/ lexNumber \/ numberPrefix \/ consumeDigits \/ digitsLoop
    \/ numberFraction \/ numberExponent \/ numberSign
    \/ lexRune \/ runeLoop \/ runeCheck \/ lexString \/ stringLoop
    \/ consumeEscape \/ escapePrefix \/ escapeDigits
    \/ lexOperator \/ lexComment \/ emit \/ emitDiscard

Consumer == NextToken \/ receiveClosed

Next == Scanner \/ handoff \/ Consumer

Spec == Init /\ [][Next]_vars

-----------------------------------------------------------------------------
(* What the claims speak of. *)

EOFTokens == { k \in 1..Len(received) : received[k].Type = "EOF" }

\* The source's read has failed: the handler was given the read error.
ReadFailed == \E k \in 1..Len(lexer.errorHandler) : lexer.errorHandler[k].err = ErrRead

\* The types after which a semicolon is implied.
SemiTypes ==
    { "Identifier", "Number", "Rune", "String",
      "RightParen", "RightBrack", "RightBrace", "Break", "Continue", "Return" }

\* The place in emitted of the last token before place k that is no comment
\* (0: there is none).
PrevNonComment(k) ==
    IF \E j \in 1..(k - 1) : emitted[j].Type # "Comment"
        THEN CHOOSE j \in 1..(k - 1) :
                 /\ emitted[j].Type # "Comment"
                 /\ \A m \in (j + 1)..(k - 1) : emitted[m].Type = "Comment"
        ELSE 0

\* A semicolon of emitted that no ";" of the source stands behind.
Synthetic(k) == emitted[k].Type = "Semicolon" /\ emitted[k].Literal # <<";">>

\* The scanner stands inside lexRune or lexString, the opening quote consumed.
InQuoted == pc \in { "runeLoop", "stringLoop", "consumeEscape", "escapePrefix",
                     "escapeDigits" }

\* The scanner stands inside a mode that produces a literal token.
InLiteralMode ==
    \/ InQuoted
    \/ pc \in { "lexRune", "runeCheck", "lexString", "lexNumber", "numberPrefix",
                "consumeDigits", "digitsLoop", "numberFraction", "numberExponent",
                "numberSign" }

-----------------------------------------------------------------------------
(* The claims. *)

\* C1: every end-of-stream token NextToken returns is the same token: type
\* EOF, empty literal, a position with line >= 1 and column >= 1.
C1_SameTerminalToken ==
    \A j \in EOFTokens :
        /\ received[j].Literal = <<>>
        /\ received[j].Pos.Line >= 1 /\ received[j].Pos.Col >= 1
        /\ \A k \in EOFTokens : received[k] = received[j]

\* C2: what NextToken has returned is the tokens emit was called for, in
\* order, each once, then end-of-stream tokens only; when an end-of-stream
\* token is returned every emitted token was returned before it.
C2_ExactDelivery ==
    /\ taken <= Len(emitted) /\ taken <= Len(received)
    /\ SubSeq(received, 1, taken) = SubSeq(emitted, 1, taken)
    /\ \A k \in (taken + 1)..Len(received) : received[k].Type = "EOF"
    /\ Len(received) > taken => taken = Len(emitted)

\* C3: at most one emitted token awaits delivery; while one does the scanner
\* stands in emit's send and leaves it only by the handoff to NextToken; it
\* reads and consumes input only when every emitted token has been received.
C3_Backpressure ==
    /\ [](Len(emitted) - taken \in { 0, 1 })
    /\ [][ pc = "send" =>
             /\ lexer' = lexer
             /\ \/ pc' = "send" /\ taken' = taken
                \/ /\ taken' = taken + 1
                   /\ received' = Append(received, emitted[Len(emitted)]) ]_vars
    /\ [][ (lexer'.source # lexer.source \/ lexer'.tokenEnd # lexer.tokenEnd)
             => taken = Len(emitted) ]_vars

\* C3's case: the second token awaits delivery with input still unread, the
\* consumer not yet in NextToken.
C3_Witness ==
    /\ pc = "send" /\ cpc = "idle"
    /\ Len(emitted) = 2 /\ taken = 1
    /\ lexer.source.data # <<>>

\* C4: every iteration of the loop of lex consumes at least one rune, or
\* emits the synthetic semicolon, or closes the engine: the loop never comes
\* back to its head with nothing consumed.
C4_LoopProgress ==
    (pc = "lex" /\ last.began) => (lexer.tokenEnd # last.end \/ last.semi)

\* C5: once the source's read has failed the engine is closed and the
\* scanner never sends on the closed stream.
C5_FatalReadCloses ==
    ReadFailed => (lexer.closed /\ lexer.tokenStream = "closed" /\ pc # "panic")

\* C6: the scanner never consumes a newline as whitespace while the
\* insert-semicolon flag is set.
C6_NewlineKeptForSemicolon ==
    [][ (pc = "discardWhitespace" /\ lexer.current = "\n" /\ lexer.insertSemi)
          => lexer'.tokenEnd = lexer.tokenEnd ]_vars

\* C7: a synthetic semicolon is emitted only at a newline with the flag set:
\* it follows a token (comments aside) after which a semicolon is implied,
\* so none at the start, none after an operator and never two in a row.
C7_SemicolonOnlyWhenImplied ==
    /\ [][ (pc = "lex" /\ pc' = "emit" /\ fr'.tokenType = "Semicolon")
             => (lexer.current = "\n" /\ lexer.insertSemi /\ lexer' = lexer) ]_vars
    /\ [](\A k \in 1..Len(emitted) :
             Synthetic(k) =>
                 /\ PrevNonComment(k) # 0
                 /\ emitted[PrevNonComment(k)].Type \in SemiTypes
                 /\ ~Synthetic(PrevNonComment(k)))

\* C7's case: a synthetic semicolon was emitted after an earlier token.
C7_Witness ==
    \E k \in 2..Len(emitted) : Synthetic(k) /\ emitted[k].Literal = <<>>

\* C8: the flag is InsertSemiAfter of the last emitted token that is no
\* comment, false before any; only emit changes it.
C8_FlagFollowsLastToken ==
    /\ [](LET k == PrevNonComment(Len(emitted) + 1)
          IN  lexer.insertSemi = (k # 0 /\ emitted[k].Type \in SemiTypes))
    /\ [][ lexer'.insertSemi # lexer.insertSemi => pc = "emit" ]_vars

\* C8's case: a comment was emitted after a keyword that sets the flag, and
\* the flag is still set.
C8_Witness ==
    /\ Len(emitted) >= 2
    /\ emitted[Len(emitted)].Type = "Comment"
    /\ emitted[Len(emitted) - 1].Type \in { "Break", "Continue", "Return" }
    /\ lexer.insertSemi

\* C9: a mode that produces a literal token returns to the loop of lex only
\* through emit, on every path.
C9_LiteralModesEmit ==
    [][ InLiteralMode => (pc' = "emit" \/ InLiteralMode') ]_vars

\* C10: a rune or string literal that stands at a newline or at the end of
\* the stream before its closing quote consumes nothing more.
C10_UnterminatedStopsAtNewline ==
    [][ (InQuoted /\ lexer.current \in { "\n", eof })
          => lexer'.tokenEnd = lexer.tokenEnd ]_vars

-----------------------------------------------------------------------------
(* The number scan. *)

\* Position p lies before position q.
PosLess(p, q) == p.Line < q.Line \/ (p.Line = q.Line /\ p.Col < q.Col)

PosLeq(p, q) == p = q \/ PosLess(p, q)

\* The scanner stands inside lexNumber, its deferred emit included.
InNumberScan ==
    \/ pc \in { "numberPrefix", "consumeDigits", "digitsLoop", "numberFraction",
                "numberExponent", "numberSign" }
    \/ pc \in { "emit", "send", "sent" } /\ fr.tokenType = "Number"

\* The reports of a failed required-digit check made inside the token that
\* is being scanned: such a check comes after a prefix, a fraction point or
\* an exponent marker, so past the start of the token.
DigitErrors ==
    { k \in 1..Len(lexer.errorHandler) :
        /\ lexer.errorHandler[k].err \in { ErrExpectedDigits(b) : b \in { 2, 8, 10, 16 } }
        /\ PosLess(lexer.tokenStart, lexer.errorHandler[k].pos) }

\* C11: when a required-digit check of the number scan fails, one error is
\* raised and nothing more is consumed into the number: for the rest of the
\* scan the token ends where the error was raised, and no second error of
\* the kind follows.
C11_RequiredDigitsStop ==
    InNumberScan =>
        /\ Cardinality(DigitErrors) <= 1
        /\ \A k \in DigitErrors : lexer.errorHandler[k].pos = lexer.tokenEnd

-----------------------------------------------------------------------------
(* The operator scan. *)

\* The lexemes of the operator band of the table.
OperatorLexemes == { e[2] : e \in { x \in typeToString : TypeIsOperator(x[1]) } }

\* The scalars of the source that are still to be read: readRune passes over
\* the bytes that are no UTF-8 and over the byte order marks.
Scalars(data) == SelectSeq(data, LAMBDA c : c \notin { BAD, bom })

\* The input from the start of the token that is being scanned.
Remaining ==
    lexer.tokenLiteral
        \o (IF lexer.current = eof THEN <<>> ELSE <<lexer.current>>)
        \o Scalars(lexer.source.data)

Prefixes(s) == { SubSeq(s, 1, n) : n \in 0..Len(s) }

\* The longest operator lexeme that s begins with (empty: there is none).
LongestOperator(s) ==
    LET ops == Prefixes(s) \cap OperatorLexemes
    IN  IF ops = {} THEN <<>>
        ELSE CHOOSE p \in ops : \A q \in ops : Len(q) <= Len(p)

\* C12: the operator scan starts with an empty literal and ends in one emit,
\* of the longest operator lexeme the input begins with, under the type the
\* table gives that lexeme, a type of the operator band.
C12_LongestOperator ==
    /\ [][ (pc = "lex" /\ pc' = "lexOperator") => lexer.tokenLiteral = <<>> ]_vars
    /\ [][ pc = "lexOperator" => pc' \in { "lexOperator", "emit" } ]_vars
    /\ [][ (pc = "lexOperator" /\ pc' = "emit") =>
             /\ lexer.tokenLiteral # <<>>
             /\ lexer.tokenLiteral = LongestOperator(Remaining)
             /\ <<fr'.tokenType, lexer.tokenLiteral>> \in typeToString
             /\ TypeIsOperator(fr'.tokenType)
             /\ lexer' = lexer ]_vars

\* C12's case: the scan has taken "<<=" as one lexeme, with input after it.
C12_Witness ==
    /\ pc = "emit" /\ fr.tokenType = "LessLessEqual"
    /\ lexer.tokenLiteral = <<"<", "<", "=">>
    /\ lexer.current # eof

-----------------------------------------------------------------------------
(* The errors. *)

\* How many of the handler's calls so far were given the error err.
Raised(err) ==
    Cardinality({ k \in 1..Len(lexer.errorHandler) : lexer.errorHandler[k].err = err })

\* The part of the source that has been read.
ReadSoFar == SubSeq(input.data, 1, Len(input.data) - Len(lexer.source.data))

\* How many bytes that are no UTF-8 have been read.
BadRead == Cardinality({ k \in 1..Len(ReadSoFar) : ReadSoFar[k] = BAD })

\* How many runes the default case of lex has met.
IllegalMet ==
    Cardinality({ k \in 1..Len(emitted) : emitted[k].Type = "Illegal" })
        + (IF pc = "emit" /\ fr.tokenType = "Illegal" THEN 1 ELSE 0)

\* C13: the counter is the number of calls of the handler, the two grow
\* together and by what is appended only, each byte that is no UTF-8 and each
\* unexpected rune is reported once, and HasErrors tells whether any error
\* was reported.
C13_CounterCountsHandlerCalls ==
    /\ [](lexer.Errors = Len(lexer.errorHandler))
    /\ [](HasErrors(lexer) <=> Len(lexer.errorHandler) > 0)
    /\ [](Raised(ErrIllegalUTF8) = BadRead)
    /\ [](Raised(ErrUnexpectedRune) = IllegalMet)
    /\ [][ /\ lexer'.Errors >= lexer.Errors
           /\ Len(lexer'.errorHandler) >= Len(lexer.errorHandler)
           /\ SubSeq(lexer'.errorHandler, 1, Len(lexer.errorHandler))
                  = lexer.errorHandler ]_vars

\* C13's case: two errors were reported and a token was delivered after.
C13_Witness ==
    /\ lexer.Errors = 2 /\ HasErrors(lexer)
    /\ Raised(ErrIllegalUTF8) = 1 /\ Raised(ErrUnexpectedRune) = 1
    /\ taken >= 1

-----------------------------------------------------------------------------
(* Errors and tokens. *)

\* The position that follows text lit when lit starts at position p.
RECURSIVE AdvancePos(_, _)
AdvancePos(p, lit) ==
    IF lit = <<>> THEN p
    ELSE AdvancePos(IF Head(lit) = "\n" THEN NextLine(NextCharacter(p))
                                        ELSE NextCharacter(p),
                    Tail(lit))

\* The position that follows the text of token tok.
TokenEndOf(tok) == AdvancePos(tok.Pos, tok.Literal)

\* The errors a step hands to the handler.
NewErrors ==
    { lexer'.errorHandler[k] :
        k \in (Len(lexer.errorHandler) + 1)..Len(lexer'.errorHandler) }

\* C14: the handler is not called while a token waits in the handoff, and an
\* error that lies before the end of a token's text is never reported after
\* that token was handed to the consumer.
C14_ErrorsBeforeToken ==
    /\ [][ pc = "send" => lexer'.errorHandler = lexer.errorHandler ]_vars
    /\ [][ \A e \in NewErrors : \A k \in 1..taken :
               ~PosLess(e.pos, TokenEndOf(emitted[k])) ]_vars

\* C14's case: a token was handed over, an error lies inside its text, and
\* the scanner goes on.
C14_Witness ==
    /\ pc = "sent" /\ taken >= 1 /\ taken = Len(emitted)
    /\ lexer.current # eof
    /\ \E k \in 1..Len(lexer.errorHandler) :
          /\ PosLeq(emitted[taken].Pos, lexer.errorHandler[k].pos)
          /\ PosLess(lexer.errorHandler[k].pos, TokenEndOf(emitted[taken]))

-----------------------------------------------------------------------------
(* Positions. *)

\* C15: the positions of the tokens NextToken has returned, the end-of-stream
\* tokens included, never decrease from one token to the next; the cursors
\* tokenStart and tokenEnd never move back, and tokenStart never passes
\* tokenEnd.
C15_PositionsNeverDecrease ==
    /\ [](\A k \in 2..Len(received) :
             PosLeq(received[k - 1].Pos, received[k].Pos))
    /\ [](PosLeq(lexer.tokenStart, lexer.tokenEnd))
    /\ [][ /\ PosLeq(lexer.tokenStart, lexer'.tokenStart)
           /\ PosLeq(lexer.tokenEnd, lexer'.tokenEnd) ]_vars

-----------------------------------------------------------------------------
(* Literals. *)

\* The scalars of the source, in order.
SourceText == Scalars(input.data)

\* The text of n scalars that the source holds from position pos on; the
\* sequence <<eof>> where the source holds no such text.
TextAt(pos, n) ==
    LET starts == { i \in 1..(Len(SourceText) + 1) :
                      AdvancePos(Origin, SubSeq(SourceText, 1, i - 1)) = pos }
    IN  IF starts = {} THEN <<eof>>
        ELSE LET i == CHOOSE j \in starts : TRUE
             IN  IF i + n - 1 > Len(SourceText) THEN <<eof>>
                 ELSE SubSeq(SourceText, i, i + n - 1)

\* C16: the literal of every emitted token is the text the source holds at
\* the token's position, and the literal buffer is empty when the synthetic
\* semicolon is emitted.
C16_LiteralIsSourceText ==
    /\ [](\A k \in 1..Len(emitted) :
             emitted[k].Literal = TextAt(emitted[k].Pos, Len(emitted[k].Literal)))
    /\ [][ (pc = "lex" /\ pc' = "emit" /\ fr'.tokenType = "Semicolon")
             => lexer.tokenLiteral = <<>> ]_vars

-----------------------------------------------------------------------------
(* Rune literals. *)

\* Text s without the hex digits it begins with, d of them at most.
RECURSIVE DropHex(_, _)
DropHex(s, d) ==
    IF d = 0 \/ s = <<>> THEN s
    ELSE IF ~IsDigit(Head(s), 16) THEN s
    ELSE DropHex(Tail(s), d - 1)

\* The number of units of text s: a plain scalar is one unit, and so is an
\* escape sequence, the backslash with its prefix and the hex digits that
\* follow the prefix, as many as the prefix asks for at most.
RECURSIVE Units(_)
Units(s) ==
    IF s = <<>> THEN 0
    ELSE IF Head(s) = "\\" /\ Len(s) >= 2
        THEN 1 + Units(DropHex(SubSeq(s, 3, Len(s)), EscapeDigits(s[2])))
        ELSE 1 + Units(Tail(s))

\* The scanner has consumed the closing quote of a rune literal that lies on
\* one line.
RuneClosed ==
    /\ pc = "runeCheck"
    /\ \A k \in 1..Len(lexer.tokenLiteral) :
          lexer.tokenLiteral[k] \notin { "\n", RuneError }

\* C17: when a rune literal is closed on its line, with n units between the
\* quotes, lexRune reports 'empty rune literal' once for n = 0, 'too many
\* characters' once for n > 1 and nothing for n = 1, at the position where
\* the literal starts, then emits one Rune token with the whole text; the
\* two errors are reported nowhere else.
C17_RuneUnitCount ==
    /\ [][ (RuneClosed /\ pc' # pc) =>
             LET lit == lexer.tokenLiteral
                 n == Units(SubSeq(lit, 2, Len(lit) - 1))
                 at(err) == [pos |-> lexer.tokenStart, err |-> err]
             IN  /\ Len(lit) >= 2 /\ lit[1] = "'" /\ lit[Len(lit)] = "'"
                 /\ lit = TextAt(lexer.tokenStart, Len(lit))
                 /\ lexer'.errorHandler =
                       IF n = 0 THEN Append(lexer.errorHandler, at(ErrEmptyRuneLiteral))
                       ELSE IF n > 1
                           THEN Append(lexer.errorHandler, at(ErrTooManyRuneChars))
                           ELSE lexer.errorHandler
                 /\ pc' = "emit" /\ fr'.tokenType = "Rune"
                 /\ lexer'.tokenLiteral = lit
                 /\ lexer'.tokenStart = lexer.tokenStart ]_vars
    /\ [][ (\E e \in NewErrors : e.err \in { ErrEmptyRuneLiteral, ErrTooManyRuneChars })
             => pc = "runeCheck" ]_vars

\* C17's case: a closed rune literal of two units, the second an escape, is
\* about to be emitted with its error reported at its start.
C17_Witness ==
    /\ pc = "emit" /\ fr.tokenType = "Rune"
    /\ lexer.tokenLiteral = RuneLit(<<"a", "\\", "n">>)
    /\ lexer.errorHandler = <<[pos |-> lexer.tokenStart, err |-> ErrTooManyRuneChars]>>
    /\ lexer.tokenStart # lexer.tokenEnd

-----------------------------------------------------------------------------
(* Number tokens. *)

\* C18: the number scan ends in the emit of one Number token whose literal
\* is not empty and begins with the decimal digit the scan was called at;
\* the source "0" gives the token Number "0" and no error.
C18_NumberTokenNotEmpty ==
    /\ []((pc = "emit" /\ fr.tokenType = "Number") =>
             /\ lexer.tokenLiteral # <<>>
             /\ IsUnicodeDigit(lexer.tokenLiteral[1]))
    /\ []((input.data = <<"0">> /\ ~input.fail /\ emitted # <<>>) =>
             /\ emitted = <<Token("Number", <<"0">>, Origin)>>
             /\ lexer.Errors = 0)
    /\ [][ (pc = "lexNumber" \/ InNumberScan) =>
             \/ pc' = "lexNumber" \/ InNumberScan'
             \/ pc = "emit" /\ pc' = "panic"
             \/ pc = "sent" /\ pc' = "lex" ]_vars

-----------------------------------------------------------------------------
(* Hex escapes. *)

\* The scanner takes a step.
ScannerStep == <<lexer, pc, fr>>' # <<lexer, pc, fr>>

\* The last n scalars of the literal buffer.
LastOf(n) ==
    SubSeq(lexer.tokenLiteral, Len(lexer.tokenLiteral) - n + 1, Len(lexer.tokenLiteral))

\* C19: in a hex escape the literal ends with the backslash, the prefix and
\* the hex digits consumed so far, never more than the 2, 4 or 8 the prefix
\* asks for; at a place for a digit a hex digit is consumed, and any other
\* scalar ends the escape with one error and is left for the scan of the
\* literal, which goes on from it; with all digits consumed nothing more is.
\* The source "\x4" in double quotes gives one String token and one error.
C19_HexEscapeDigits ==
    /\ [](pc = "escapeDigits" =>
             /\ fr.digits = EscapeDigits(fr.prefix) /\ fr.digits \in { 2, 4, 8 }
             /\ fr.i <= fr.digits
             /\ Len(lexer.tokenLiteral) >= fr.i + 3
             /\ LastOf(fr.i + 2) = <<"\\", fr.prefix>> \o fr.hexDigits
             /\ Len(fr.hexDigits) = fr.i
             /\ \A k \in 1..fr.i : IsDigit(fr.hexDigits[k], 16))
    /\ [][ (pc = "escapeDigits" /\ ScannerStep) =>
             IF fr.i < fr.digits /\ IsDigit(lexer.current, 16)
                 THEN /\ lexer'.tokenLiteral = Append(lexer.tokenLiteral, lexer.current)
                      /\ lexer'.errorHandler = lexer.errorHandler
                      /\ pc' = "escapeDigits"
             ELSE IF fr.i < fr.digits
                 THEN /\ lexer'.errorHandler =
                            Append(lexer.errorHandler,
                                   [pos |-> lexer.tokenEnd, err |-> ErrHexDigits])
                      /\ lexer' = [lexer EXCEPT !.Errors = lexer'.Errors,
                                                !.errorHandler = lexer'.errorHandler]
                      /\ pc' = LoopOf(fr.quote)
                 ELSE /\ lexer'.tokenLiteral = lexer.tokenLiteral
                      /\ lexer'.tokenEnd = lexer.tokenEnd
                      /\ lexer'.current = lexer.current
                      /\ pc' = LoopOf(fr.quote) ]_vars
    /\ []((input = [data |-> StringLit(<<"\\", "x", "4">>), fail |-> FALSE]
              /\ emitted # <<>>) =>
             /\ emitted = <<Token("String", input.data, Origin)>>
             /\ lexer.errorHandler = <<[pos |-> Pos(1, 5), err |-> ErrHexDigits]>>)

\* C19's case: a \x escape with one digit met the closing quote, and the
\* string was emitted whole.
C19_Witness ==
    /\ input.data = StringLit(<<"\\", "x", "4">>)
    /\ emitted = <<Token("String", input.data, Origin)>>
    /\ Raised(ErrHexDigits) = 1

-----------------------------------------------------------------------------
(* Code points. *)

\* One more than the largest code point, U+10FFFF.
PastUnicode == 1114112

\* The number that the hex digits s denote after the digits of value acc,
\* or PastUnicode when that number is past U+10FFFF.
RECURSIVE HexValue(_, _)
HexValue(s, acc) ==
    IF s = <<>> THEN acc
    ELSE IF acc * 16 + HexDigit(Head(s)) >= PastUnicode THEN PastUnicode
    ELSE HexValue(Tail(s), acc * 16 + HexDigit(Head(s)))

\* The hex digits s denote a Unicode scalar value: a code point up to
\* U+10FFFF that is no surrogate (U+D800 to U+DFFF).
IsScalarValue(s) ==
    LET v == HexValue(s, 0)
    IN  v < PastUnicode /\ ~(55296 <= v /\ v <= 57343)

\* C20: when a hex escape has all its digits, 'invalid Unicode codepoint' is
\* reported, once, exactly when the digits denote no Unicode scalar value;
\* the scan of the literal goes on either way, nothing else reports this
\* error, and the sources "\uD800" and "\UFFFFFFFF" in double quotes each
\* give one String token and that one error.
C20_InvalidCodepoint ==
    /\ [][ (pc = "escapeDigits" /\ fr.i = fr.digits /\ ScannerStep) =>
             /\ lexer'.errorHandler =
                   IF IsScalarValue(LastOf(fr.digits))
                       THEN lexer.errorHandler
                       ELSE Append(lexer.errorHandler,
                                   [pos |-> lexer.tokenEnd, err |-> ErrInvalidCodepoint])
             /\ lexer' = [lexer EXCEPT !.Errors = lexer'.Errors,
                                       !.errorHandler = lexer'.errorHandler]
             /\ pc' = LoopOf(fr.quote) ]_vars
    /\ [][ (\E e \in NewErrors : e.err = ErrInvalidCodepoint)
             => (pc = "escapeDigits" /\ fr.i = fr.digits) ]_vars
    /\ []((/\ input.data \in { StringLit(<<"\\", "u", "D", "8", "0", "0">>),
                               StringLit(<<"\\", "U", "F", "F", "F", "F", "F", "F", "F", "F">>) }
           /\ ~input.fail /\ emitted # <<>>) =>
             /\ emitted = <<Token("String", input.data, Origin)>>
             /\ lexer.errorHandler =
                   <<[pos |-> Pos(1, Len(input.data)), err |-> ErrInvalidCodepoint]>>)

\* C20's case: a \U escape for a number past 32 bits was scanned and the
\* string emitted, with the one error.
C20_Witness ==
    /\ input.data = StringLit(<<"\\", "U", "F", "F", "F", "F", "F", "F", "F", "F">>)
    /\ emitted = <<Token("String", input.data, Origin)>>
    /\ Raised(ErrInvalidCodepoint) = 1 /\ lexer.Errors = 1

-----------------------------------------------------------------------------
(* Escaped identifiers. *)

\* An identifier character: what consumeIdentifier consumes.
IsIdentifierRune(r) == IsLetter(r) \/ IsUnicodeDigit(r) \/ r = "_"

\* C21: the escaped identifier ends by consuming a backslash of the source,
\* and the token emitted is an Identifier whose literal is a backslash,
\* identifier characters and a backslash.
C21_EscapedIdentifierClosed ==
    /\ [][ (pc = "escapedIdentifier" /\ pc' = "emit") =>
             /\ lexer.current = "\\"
             /\ fr'.tokenType = "Identifier" ]_vars
    /\ []((pc = "emit" /\ fr.tokenType = "Identifier"
              /\ lexer.tokenLiteral # <<>> /\ lexer.tokenLiteral[1] = "\\") =>
             LET lit == lexer.tokenLiteral
             IN  /\ Len(lit) >= 2 /\ lit[Len(lit)] = "\\"
                 /\ \A k \in 2..(Len(lit) - 1) : IsIdentifierRune(lit[k]))

-----------------------------------------------------------------------------
(* Byte order marks. *)

\* The byte order marks read so far that the first read of the stream did
\* not read.
LateMarks == { k \in 2..Len(ReadSoFar) : ReadSoFar[k] = bom }

\* C22: every byte order mark but one read by the first read of the stream
\* is reported, once; no byte order mark becomes the current scalar or part
\* of a literal.
C22_OnlyLeadingMarkAccepted ==
    /\ Raised(ErrIllegalBOM) = Cardinality(LateMarks)
    /\ lexer.current # bom
    /\ \A k \in 1..Len(lexer.tokenLiteral) : lexer.tokenLiteral[k] # bom

-----------------------------------------------------------------------------
(* Positions of tokens. *)

\* The number of scalars of the source consumed so far: those read, less
\* the one that is held in current.
ConsumedCount ==
    Len(Scalars(ReadSoFar)) - (IF lexer.current \in { eof, NUL } THEN 0 ELSE 1)

\* The line and column of the scalar of the source at place i: one more than
\* the newlines before it, one more than the scalars since the last of them.
PosOfIndex(i) ==
    LET newlines == { k \in 1..(i - 1) : SourceText[k] = "\n" }
        lastNewline == IF newlines = {} THEN 0
                       ELSE CHOOSE k \in newlines : \A m \in newlines : m <= k
    IN  Pos(1 + Cardinality(newlines), i - lastNewline)

\* The scalars of the source in the literal buffer.
LiteralScalars == SelectSeq(lexer.tokenLiteral, LAMBDA c : c # RuneError)

\* C23: a scanned token is emitted with the position of its first scalar in
\* the source, and the synthetic semicolon with the position of the newline
\* it is emitted at.
C23_TokenPosition ==
    (pc = "emit" /\ last.began) =>
        IF last.semi
            THEN lexer.tokenStart = PosOfIndex(ConsumedCount + 1)
            ELSE lexer.tokenStart = PosOfIndex(ConsumedCount - Len(LiteralScalars) + 1)

-----------------------------------------------------------------------------
(* After the end of the stream. *)

\* C24: once NextToken has returned an end-of-stream token the scanner
\* changes nothing of the Lexer: no error is counted or reported, nothing is
\* consumed and nothing is emitted.
C24_NothingAfterEOF ==
    [][ EOFTokens # {} =>
          /\ lexer' = lexer
          /\ emitted' = emitted ]_vars

-----------------------------------------------------------------------------
(* Types of tokens. *)

\* The types a scanned token may have: no end-of-stream, no band sentinel.
SendableTypes ==
    { "Illegal", "Comment" }
        \cup { TypeNames[i] : i \in { j \in 1..Len(TypeNames) :
                 \/ TypeIsLiteral(TypeNames[j])
                 \/ TypeIsOperator(TypeNames[j])
                 \/ TypeIsKeyword(TypeNames[j]) } }

\* The lexemes of the keyword band of the table.
KeywordLexemes == { e[2] : e \in { x \in typeToString : TypeIsKeyword(x[1]) } }

\* C25: every token the scanner sends has the type Illegal or Comment or a
\* type of the literal, operator or keyword band; the end-of-stream tokens
\* the consumer gets come after every token that was sent; the identifier
\* scan gives the keyword type of its text when the text is a keyword
\* lexeme, and Identifier otherwise.
C25_SentTypesValid ==
    /\ [](\A k \in 1..Len(emitted) : emitted[k].Type \in SendableTypes)
    /\ [](\A k \in 1..Len(received) : received[k].Type = "EOF" => k > taken)
    /\ [][ (pc = "send" /\ pc' = "sent") =>
             /\ Len(received') = Len(received) + 1
             /\ received'[Len(received')].Type \in SendableTypes ]_vars
    /\ [][ (pc = "lexIdentifier" /\ pc' = "emit") =>
             IF lexer.tokenLiteral \in KeywordLexemes
                 THEN /\ TypeIsKeyword(fr'.tokenType)
                      /\ <<fr'.tokenType, lexer.tokenLiteral>> \in typeToString
                 ELSE fr'.tokenType = "Identifier" ]_vars

\* C25's case: a keyword, an identifier and an operator were sent and
\* received, then the end-of-stream token.
C25_Witness ==
    /\ taken = 2 /\ Len(received) = 3
    /\ received[1].Type \in { "If", "Break", "Return", "Continue" }
    /\ received[2].Type \in { "Identifier", "LeftParen", "Semicolon" }
    /\ received[3].Type = "EOF"

====
